---- MODULE Spec2Model ----
(***************************************************************************)
(* aiscan: budget tracker (src/src/cost.rs), audit coordinator             *)
(* (src/src/audit.rs), per-file scan / call normalizer and directory scan  *)
(* (src/src/core.rs, src/src/parser.rs, src/src/patterns.rs).              *)
(*                                                                         *)
(* Option<T> is modelled with the value None; a USD amount is an integer   *)
(* number of micro-dollars; a path or an id string is modelled by a value  *)
(* whose order is the order of the strings.                                *)
(***************************************************************************)
EXTENDS Integers, Sequences, FiniteSets, TLC

VARIABLES
    budget,     \* the Budget behind Arc<Mutex<Budget>>
    calls,      \* Budget methods called directly so far, with what they returned
    lock,       \* holder of the tokio Mutex around the Budget (None when free)
    audits,     \* one record per running SecurityAuditor::audit call
    parsers,    \* holder of the std Mutex around the parsers of FileParser (None when free)
    scans,      \* one record per Scanner::scan_file call
    normalized, \* a sequence of Calls the Call Normalizer is run on, and how often
    directory,  \* the Scanner::scan_directory call: the tree, the files, the results map, what it returns
    conversion  \* a PatternMatcher::byte_offset_to_line_col call: the content, the offset, the loop

vars == <<budget, calls, lock, audits, parsers, scans, normalized, directory, conversion>>

None == -1

\* ---------------------------------------------------------------- bounds
MaxCeiling == 3      \* largest configured ceiling (tokens, requests)
MaxTokens == 2       \* largest tokens argument of a direct consume call
MaxCalls == 3        \* number of direct Budget method calls in one run
NumFiles == 2        \* paths of the scanned tree
MaxPos == 2          \* positions of a file where a hit can be, in reading order
MaxInv == 2          \* Calls of an audited Inventory
MaxHits == 2         \* hits of one matcher in one file
MaxSeq == 3          \* Calls of a sequence given to the Call Normalizer
MaxRuns == 2         \* runs of the Call Normalizer on one sequence
MaxEst == 2          \* largest token estimate of the review prompt
MaxChars == 3        \* characters of a content given to the offset conversion
NumAudits == 2       \* audits running at once against one Budget

\* ---------------------------------------------------------------- Budget
\* TokenCounter::estimate_cost for "gpt-4o": 0.03 and 0.06 USD per 1000
\* tokens are 30 and 60 micro-dollars per token.
InputPrice == 30
OutputPrice == 60

\* The cost arguments and ceilings are multiples of the price of one prompt
\* token.
UsdUnit == InputPrice

Ceilings == {None} \cup (0..MaxCeiling)
UsdCeilings == {None} \cup {UsdUnit * k : k \in 0..MaxCeiling}
TokenArgs == 0..MaxTokens
CostArgs == {UsdUnit * k : k \in 0..MaxTokens}

Limits == [max_tokens : Ceilings, max_requests : Ceilings, max_usd : UsdCeilings]

from_config(limits) ==
    [max_tokens |-> limits.max_tokens,
     max_requests |-> limits.max_requests,
     max_usd |-> limits.max_usd,
     used_tokens |-> 0,
     used_requests |-> 0,
     used_usd |-> 0]

\* consume with the addition committed before the token check.
consume_commit_first(b, tokens) ==
    LET b2 == [b EXCEPT !.used_tokens = @ + tokens,
                        !.used_requests = @ + 1]
    IN  IF b.max_tokens # None /\ b2.used_tokens > b.max_tokens
        THEN [budget |-> b2, ret |-> "ErrTokens"]
        ELSE IF b.max_requests # None /\ b2.used_requests > b.max_requests
             THEN [budget |-> b2, ret |-> "ErrRequests"]
             ELSE [budget |-> b2, ret |-> "Ok"]

\* Budget::consume: the budget after the call and the value returned.
consume(b, tokens) ==
    IF b.max_tokens # None /\ b.used_tokens + tokens > b.max_tokens
    THEN [budget |-> b, ret |-> "ErrTokens"]
    ELSE LET b2 == [b EXCEPT !.used_tokens = @ + tokens,
                             !.used_requests = @ + 1]
         IN  IF b.max_requests # None /\ b2.used_requests > b.max_requests
             THEN [budget |-> b2, ret |-> "ErrRequests"]
             ELSE [budget |-> b2, ret |-> "Ok"]

\* consume_cost with the addition committed before the check.
consume_cost_commit_first(b, cost_usd) ==
    LET b2 == [b EXCEPT !.used_usd = @ + cost_usd]
    IN  IF b.max_usd # None /\ b2.used_usd > b.max_usd
        THEN [budget |-> b2, ret |-> "ErrCost"]
        ELSE [budget |-> b2, ret |-> "Ok"]

\* Budget::consume_cost
consume_cost(b, cost_usd) ==
    IF b.max_usd # None /\ b.used_usd + cost_usd > b.max_usd
    THEN [budget |-> b, ret |-> "ErrCost"]
    ELSE [budget |-> [b EXCEPT !.used_usd = @ + cost_usd], ret |-> "Ok"]

\* is_exceeded with strict comparisons.
is_exceeded_strict(b) ==
    IF b.max_tokens # None /\ b.used_tokens > b.max_tokens THEN TRUE
    ELSE IF b.max_requests # None /\ b.used_requests > b.max_requests THEN TRUE
    ELSE IF b.max_usd # None /\ b.used_usd > b.max_usd THEN TRUE
    ELSE FALSE

\* Budget::is_exceeded
is_exceeded(b) ==
    IF b.max_tokens # None /\ b.used_tokens >= b.max_tokens THEN TRUE
    ELSE IF b.max_requests # None /\ b.used_requests >= b.max_requests THEN TRUE
    ELSE IF b.max_usd # None /\ b.used_usd >= b.max_usd THEN TRUE
    ELSE FALSE

\* usize::saturating_sub
saturating_sub(a, b) == IF a >= b THEN a - b ELSE 0

\* Budget::remaining_tokens
remaining_tokens(b) ==
    IF b.max_tokens = None THEN None ELSE saturating_sub(b.max_tokens, b.used_tokens)

\* Budget::remaining_usd
remaining_usd(b) ==
    IF b.max_usd = None THEN None ELSE b.max_usd - b.used_usd

IsErr(ret) == ret \in {"ErrTokens", "ErrRequests", "ErrCost", "ErrSerialize"}

\* ------------------------------------------------------------ data model
\* A path is modelled by a number whose order is the order of the paths; a
\* text (wrapper, model, context) by a string together with the patterns
\* of the rules that occur in it.
NoModel == "<none>"

Occurs(text) ==
    CASE text = "client = OpenAI(api_key=OPENAI_API_KEY)" -> {"api_key", "API_KEY"}
      [] text = "key = os.getenv(\"OPENAI_API_KEY\")" -> {"API_KEY", "getenv", "env"}
      [] text = "validate(x); limit(n); api_key = k" -> {"validate", "limit", "api_key"}
      [] text = "api_key = os.environ[\"OPENAI_KEY\"]" -> {"api_key", "env"}
      [] text = "sanitize(x); quota(n)" -> {"sanitize", "quota"}
      [] text = "client.chat.completions.create" -> {"chat", "completion"}
      [] text = "gpt-4o" -> {"gpt-4"}
      [] text = "claude-3-opus" -> {"claude"}
      [] OTHER -> {}

\* str::contains
contains(text, pat) == pat \in Occurs(text)

\* Ord of tuples: lexicographic order of two tuples of the same length.
TupleLess(a, b) ==
    \E k \in 1..Len(a) :
        /\ k <= Len(b)
        /\ a[k] < b[k]
        /\ \A m \in 1..(k - 1) : a[m] = b[m]

\* The value of a one-element set.
The(S) == CHOOSE x \in S : TRUE

\* The elements of v at the indices of keep, in the order of v.
SubSeq_(v, keep) ==
    [p \in 1..Cardinality(keep) |->
        v[CHOOSE i \in keep : Cardinality({j \in keep : j <= i}) = p]]

\* slice::sort_by_key: the stable sort of the standard library, v with the
\* keys of its elements. An element goes behind the elements with a smaller
\* key and behind the earlier elements with the same key.
\* (x \in {e} names the value of e.)
SortByKeys(v, keys) ==
    The({[p \in 1..Len(v) |-> v[CHOOSE i \in 1..Len(v) : pos[i] = p]] :
            pos \in {[i \in 1..Len(v) |->
                        1 + Cardinality({j \in 1..Len(v) :
                              \/ TupleLess(keys[j], keys[i])
                              \/ keys[j] = keys[i] /\ j < i})]}})

sort_by_key(v, keys) == The({SortByKeys(x[1], x[2]) : x \in {<<v, keys>>}})

\* Vec::dedup_by_key: of every run of consecutive elements with the same
\* key, the first one is kept.
DedupByKeys(v, keys) ==
    The({SubSeq_(v, keep) :
            keep \in {{i \in 1..Len(v) : i = 1 \/ keys[i] # keys[i - 1]}}})

dedup_by_key(v, keys) == The({DedupByKeys(x[1], x[2]) : x \in {<<v, keys>>}})

\* ------------------------------------------------------ Static Rule Engine
\* format!("STATIC-00k-{}:{}", file, line) is <<k, file, line>> and "LLM-001"
\* is <<0, 0, 0>>: the order of these tuples is the order of the strings.
StaticId(k, call) == <<k, call.file, call.line>>
LlmId == <<0, 0, 0>>

Finding(id, severity, call, issue_type) ==
    [id |-> id, severity |-> severity, file |-> call.file, line |-> call.line,
     issue_type |-> issue_type]

\* static_analysis lines 177-230 with `||` between the two environment
\* markers of the first rule.
CallFindings_env_or(call) ==
    (IF (contains(call.context, "api_key") \/ contains(call.context, "API_KEY"))
          /\ (~contains(call.context, "env") \/ ~contains(call.context, "getenv"))
     THEN <<Finding(StaticId(1, call), "High", call, "ApiKeyExposure")>>
     ELSE <<>>)
    \o
    (IF (contains(call.wrapper, "chat") \/ contains(call.wrapper, "completion"))
          /\ (~contains(call.context, "validate") /\ ~contains(call.context, "sanitize"))
     THEN <<Finding(StaticId(2, call), "Medium", call, "MissingInputValidation")>>
     ELSE <<>>)
    \o
    (IF (call.model # NoModel
            /\ (contains(call.model, "gpt-4") \/ contains(call.model, "claude")))
          /\ (~contains(call.context, "limit") /\ ~contains(call.context, "quota"))
     THEN <<Finding(StaticId(3, call), "Medium", call, "UnrestrictedModelAccess")>>
     ELSE <<>>)

\* static_analysis lines 177-230 with the three rules chained by `else if`:
\* the first rule whose trigger matches is the only one evaluated.
CallFindings_else_if(call) ==
    IF contains(call.context, "api_key") \/ contains(call.context, "API_KEY")
    THEN IF ~contains(call.context, "env") /\ ~contains(call.context, "getenv")
         THEN <<Finding(StaticId(1, call), "High", call, "ApiKeyExposure")>>
         ELSE <<>>
    ELSE IF contains(call.wrapper, "chat") \/ contains(call.wrapper, "completion")
    THEN IF ~contains(call.context, "validate") /\ ~contains(call.context, "sanitize")
         THEN <<Finding(StaticId(2, call), "Medium", call, "MissingInputValidation")>>
         ELSE <<>>
    ELSE IF call.model # NoModel
              /\ (contains(call.model, "gpt-4") \/ contains(call.model, "claude"))
    THEN IF ~contains(call.context, "limit") /\ ~contains(call.context, "quota")
         THEN <<Finding(StaticId(3, call), "Medium", call, "UnrestrictedModelAccess")>>
         ELSE <<>>
    ELSE <<>>

\* The findings static_analysis pushes for one call, in order.
CallFindings(call) ==
    (IF (contains(call.context, "api_key") \/ contains(call.context, "API_KEY"))
          /\ (~contains(call.context, "env") /\ ~contains(call.context, "getenv"))
     THEN <<Finding(StaticId(1, call), "High", call, "ApiKeyExposure")>>
     ELSE <<>>)
    \o
    (IF (contains(call.wrapper, "chat") \/ contains(call.wrapper, "completion"))
          /\ (~contains(call.context, "validate") /\ ~contains(call.context, "sanitize"))
     THEN <<Finding(StaticId(2, call), "Medium", call, "MissingInputValidation")>>
     ELSE <<>>)
    \o
    (IF (call.model # NoModel
            /\ (contains(call.model, "gpt-4") \/ contains(call.model, "claude")))
          /\ (~contains(call.context, "limit") /\ ~contains(call.context, "quota"))
     THEN <<Finding(StaticId(3, call), "Medium", call, "UnrestrictedModelAccess")>>
     ELSE <<>>)

\* SecurityAuditor::static_analysis
RECURSIVE static_analysis(_)
static_analysis(ai_calls) ==
    IF ai_calls = <<>> THEN <<>>
    ELSE CallFindings(Head(ai_calls)) \o static_analysis(Tail(ai_calls))

\* The mock response of llm_analysis: one finding at the first call.
llm_findings(ai_calls) ==
    <<[id |-> LlmId, severity |-> "High",
       file |-> IF ai_calls = <<>> THEN 0 ELSE ai_calls[1].file,
       line |-> IF ai_calls = <<>> THEN 0 ELSE ai_calls[1].line,
       issue_type |-> "LLM01PromptInjection"]>>

\* The key of the sort and of the dedup in audit.
FindingKey(f) == <<f.file, f.line>> \o f.id

FindingKeys(findings) == [i \in 1..Len(findings) |-> FindingKey(findings[i])]

\* audit line 164
sort_findings(findings) ==
    The({sort_by_key(v, FindingKeys(v)) : v \in {findings}})

\* audit line 165
dedup_findings(findings) ==
    The({dedup_by_key(v, FindingKeys(v)) : v \in {findings}})

\* audit, "Deduplicate and sort findings"
merge_findings(findings) == dedup_findings(sort_findings(findings))

CountSeverity(findings, severity) ==
    Cardinality({i \in 1..Len(findings) : findings[i].severity = severity})

\* SecurityAuditor::calculate_summary
calculate_summary(findings) ==
    [total_findings |-> Len(findings),
     critical |-> CountSeverity(findings, "Critical"),
     high |-> CountSeverity(findings, "High"),
     medium |-> CountSeverity(findings, "Medium"),
     low |-> CountSeverity(findings, "Low"),
     info |-> CountSeverity(findings, "Info")]

\* TokenUsage built in llm_analysis from the estimated prompt tokens.
TokenUsage(estimated_tokens) ==
    [prompt_tokens |-> estimated_tokens,
     completion_tokens |-> estimated_tokens \div 2,
     total_tokens |-> estimated_tokens + estimated_tokens \div 2]

\* TokenCounter::estimate_cost for "gpt-4o"
estimate_cost(tokens) ==
    tokens.prompt_tokens * InputPrice + tokens.completion_tokens * OutputPrice

\* ------------------------------------------------- direct Budget calls
\* A caller that owns a Budget and calls its methods one after the other,
\* as test_budget_tracking does.
BudgetInit ==
    /\ \E limits \in Limits : budget = from_config(limits)
    /\ calls = <<>>
    /\ lock = None
    /\ audits = <<>>
    /\ parsers = None
    /\ scans = <<>>
    /\ normalized = None
    /\ directory = None
    /\ conversion = None

CallConsume(tokens) ==
    /\ Len(calls) < MaxCalls
    /\ LET r == consume(budget, tokens)
       IN  /\ budget' = r.budget
           /\ calls' = Append(calls, [op |-> "consume", arg |-> tokens, ret |-> r.ret])
    /\ UNCHANGED <<lock, audits, parsers, scans, normalized, directory, conversion>>

CallConsumeCost(cost_usd) ==
    /\ Len(calls) < MaxCalls
    /\ LET r == consume_cost(budget, cost_usd)
       IN  /\ budget' = r.budget
           /\ calls' = Append(calls, [op |-> "consume_cost", arg |-> cost_usd, ret |-> r.ret])
    /\ UNCHANGED <<lock, audits, parsers, scans, normalized, directory, conversion>>

CallIsExceeded ==
    /\ Len(calls) < MaxCalls
    /\ calls' = Append(calls, [op |-> "is_exceeded", arg |-> None, ret |-> is_exceeded(budget)])
    /\ UNCHANGED <<budget, lock, audits, parsers, scans, normalized, directory, conversion>>

BudgetNext ==
    \/ \E tokens \in TokenArgs : CallConsume(tokens)
    \/ \E cost_usd \in CostArgs : CallConsumeCost(cost_usd)
    \/ CallIsExceeded

BudgetSpec == BudgetInit /\ [][BudgetNext]_vars

\* ------------------------------------------------------ Audit Coordinator
\* The places <<line, column>> of a file where a hit can be: two columns
\* on every line.
Positions == {<<(p + 1) \div 2, 2 - (p % 2)>> : p \in 1..MaxPos}

\* The Calls an audit sees: a position in a file and what the rules read.
AuditShapes ==
    {[wrapper |-> "client.chat.completions.create", model |-> "gpt-4o",
      context |-> "client = OpenAI(api_key=OPENAI_API_KEY)"],
     [wrapper |-> "openai_config", model |-> NoModel,
      context |-> "key = os.getenv(\"OPENAI_API_KEY\")"]}

AuditCalls ==
    {[file |-> f, line |-> pos[1], column |-> pos[2],
      wrapper |-> sh.wrapper, model |-> sh.model, context |-> sh.context] :
        f \in 1..NumFiles, pos \in Positions, sh \in AuditShapes}

CallKey(call) == <<call.file, call.line, call.column>>

\* What scan_directory can return: the Calls of a file are contiguous,
\* ascending by (line, column) and have distinct keys; the files come in any
\* order.
ScanProducible(ai_calls) ==
    \A i, j \in 1..Len(ai_calls) :
        (i < j /\ ai_calls[i].file = ai_calls[j].file) =>
            /\ TupleLess(CallKey(ai_calls[i]), CallKey(ai_calls[j]))
            /\ \A k \in i..j : ai_calls[k].file = ai_calls[i].file

Inventories ==
    {inv \in UNION {[1..n -> AuditCalls] : n \in 0..MaxInv} : ScanProducible(inv)}

EstimatedTokens == 1..MaxEst

\* audit line 154: the LLM pass is entered for every Inventory.
runs_llm_pass_always(ai_calls) == TRUE

\* audit line 154
runs_llm_pass(ai_calls) == ai_calls # <<>>

\* audit with `?` on the result of llm_analysis.
on_llm_result_propagate(findings, llm) ==
    IF llm.ok THEN [findings |-> findings \o llm.findings, fatal |-> FALSE]
    ELSE [findings |-> findings, fatal |-> TRUE]

\* audit lines 155-160: the match on the result of llm_analysis.
on_llm_result(findings, llm) ==
    IF llm.ok THEN [findings |-> findings \o llm.findings, fatal |-> FALSE]
    ELSE [findings |-> findings, fatal |-> FALSE]

\* audit lines 163-170 with the summary taken before the dedup.
audit_result_summary_first(findings) ==
    The({[ok |-> TRUE,
          findings |-> dedup_findings(sorted),
          summary |-> calculate_summary(sorted)] :
            sorted \in {sort_findings(findings)}})

\* audit lines 163-170 with the sort alone.
audit_result_no_dedup(findings) ==
    The({[ok |-> TRUE, findings |-> merged, summary |-> calculate_summary(merged)] :
            merged \in {sort_findings(findings)}})

\* audit lines 163-170: sort, dedup, summary, Ok(AuditResult).
audit_result(findings) ==
    The({[ok |-> TRUE, findings |-> merged, summary |-> calculate_summary(merged)] :
            merged \in {merge_findings(findings)}})

NoResult == [ok |-> FALSE, findings |-> <<>>, summary |-> calculate_summary(<<>>)]

\* An audit of an Inventory under Config::default(): enable_llm_audit is the
\* flag of the AuditConfig that audit is given.
NewAudit(inv) ==
    [pc |-> "Idle", inventory |-> inv, findings |-> <<>>, est |-> 0,
     llm |-> "none", result |-> NoResult, start |-> None,
     enable_llm_audit |-> TRUE]

\* llm_analysis lines 249-261: the reservation made under the lock, consume
\* of the total tokens and, when that is Ok, consume_cost of the estimate.
reserve(b, estimated_tokens) ==
    LET usage == TokenUsage(estimated_tokens)
        r1 == consume(b, usage.total_tokens)
    IN  IF IsErr(r1.ret) THEN r1
        ELSE consume_cost(r1.budget, estimate_cost(usage))

AuditLimits ==
    [max_tokens : {None, MaxCeiling}, max_requests : {None, 1},
     max_usd : {None, UsdUnit * MaxCeiling}]

\* The Budget an audit finds: as Scanner::new made it, or as an earlier audit
\* of the same Scanner left it after its reservation.
AuditBudgets ==
    {from_config(limits) : limits \in AuditLimits}
      \cup {reserve(from_config(limits), e).budget :
              limits \in AuditLimits, e \in EstimatedTokens}

AuditInit ==
    /\ budget \in AuditBudgets
    /\ calls = <<>>
    /\ lock = None
    /\ \E inv \in Inventories : audits = <<NewAudit(inv)>>
    /\ parsers = None
    /\ scans = <<>>
    /\ normalized = None
    /\ directory = None
    /\ conversion = None

\* audit line 151: the static pass.
StaticPass(a) ==
    /\ audits[a].pc = "Idle"
    /\ audits' = [audits EXCEPT ![a].pc = "StaticPass",
                                ![a].findings = static_analysis(audits[a].inventory),
                                ![a].start = budget]
    /\ UNCHANGED <<budget, calls, lock, parsers, scans, normalized, directory, conversion>>

\* audit line 154, taken: llm_analysis is called.
EnterLlmPass(a) ==
    /\ audits[a].pc = "StaticPass"
    /\ runs_llm_pass(audits[a].inventory)
    /\ audits' = [audits EXCEPT ![a].pc = "LlmPass"]
    /\ UNCHANGED <<budget, calls, lock, parsers, scans, normalized, directory, conversion>>

\* audit line 154, not taken.
SkipLlmPass(a) ==
    /\ audits[a].pc = "StaticPass"
    /\ ~runs_llm_pass(audits[a].inventory)
    /\ audits' = [audits EXCEPT ![a].pc = "Skip"]
    /\ UNCHANGED <<budget, calls, lock, parsers, scans, normalized, directory, conversion>>

\* What audit does with an Err of llm_analysis.
LlmFailed(a, err) ==
    LET r == on_llm_result(audits[a].findings, [ok |-> FALSE, findings |-> <<>>])
    IN  [audits EXCEPT ![a].llm = err,
                       ![a].findings = r.findings,
                       ![a].pc = IF r.fatal THEN "Done" ELSE "Skip"]

\* llm_analysis line 241: serde_json fails on the Inventory (a path that is
\* not UTF-8) and llm_analysis returns the error.
LlmSerializeFails(a) ==
    /\ audits[a].pc = "LlmPass"
    /\ audits' = LlmFailed(a, "ErrSerialize")
    /\ UNCHANGED <<budget, calls, lock, parsers, scans, normalized, directory, conversion>>

\* llm_analysis lines 241-259: the prompt is built, its tokens are estimated
\* by the tokenizer, and the budget lock is acquired.
LlmLock(a, estimated_tokens) ==
    /\ audits[a].pc = "LlmPass"
    /\ lock = None
    /\ lock' = a
    /\ audits' = [audits EXCEPT ![a].pc = "LlmLocked", ![a].est = estimated_tokens]
    /\ UNCHANGED <<budget, calls, parsers, scans, normalized, directory, conversion>>

\* llm_analysis lines 260-270 with the guard bound outside the block: it is
\* dropped when llm_analysis returns, not before the analysis.
LlmReserve_hold_lock(a) ==
    /\ audits[a].pc = "LlmLocked"
    /\ lock = a
    /\ LET r == reserve(budget, audits[a].est)
       IN  /\ budget' = r.budget
           /\ audits' = IF IsErr(r.ret) THEN LlmFailed(a, r.ret)
                        ELSE [audits EXCEPT ![a].pc = "LlmAnalysis"]
           /\ lock' = IF IsErr(r.ret) THEN None ELSE lock
    /\ UNCHANGED <<calls, parsers, scans, normalized, directory, conversion>>

\* llm_analysis lines 260-270 on a copy of the Budget taken when the audit
\* began: the check and the commit are made on the copy, which is written
\* back under the lock.
LlmReserve_stale(a) ==
    /\ audits[a].pc = "LlmLocked"
    /\ lock = a
    /\ LET r == reserve(audits[a].start, audits[a].est)
       IN  /\ budget' = r.budget
           /\ audits' = IF IsErr(r.ret) THEN LlmFailed(a, r.ret)
                        ELSE [audits EXCEPT ![a].pc = "LlmAnalysis"]
    /\ lock' = None
    /\ UNCHANGED <<calls, parsers, scans, normalized, directory, conversion>>

\* llm_analysis lines 260-270: consume, consume_cost, and the guard is
\* dropped, at the end of the block or by the `?` that returns the error.
LlmReserve(a) ==
    /\ audits[a].pc = "LlmLocked"
    /\ lock = a
    /\ LET r == reserve(budget, audits[a].est)
       IN  /\ budget' = r.budget
           /\ audits' = IF IsErr(r.ret) THEN LlmFailed(a, r.ret)
                        ELSE [audits EXCEPT ![a].pc = "LlmAnalysis"]
    /\ lock' = None
    /\ UNCHANGED <<calls, parsers, scans, normalized, directory, conversion>>

\* llm_analysis lines 272-290 and audit line 156: the analysis answers and
\* its findings are appended.
LlmRespond(a) ==
    /\ audits[a].pc = "LlmAnalysis"
    /\ LET r == on_llm_result(audits[a].findings,
                              [ok |-> TRUE, findings |-> llm_findings(audits[a].inventory)])
       IN  audits' = [audits EXCEPT ![a].llm = "Ok",
                                    ![a].findings = r.findings,
                                    ![a].pc = "LlmDone"]
    /\ UNCHANGED <<budget, calls, lock, parsers, scans, normalized, directory, conversion>>

\* audit lines 163-168: sort, dedup and summary.
Merge(a) ==
    /\ audits[a].pc \in {"LlmDone", "Skip"}
    /\ audits' = [audits EXCEPT ![a].pc = "Merge",
                                ![a].result = audit_result(audits[a].findings)]
    /\ UNCHANGED <<budget, calls, lock, parsers, scans, normalized, directory, conversion>>

\* audit line 170: Ok(AuditResult) is returned.
Return(a) ==
    /\ audits[a].pc = "Merge"
    /\ audits' = [audits EXCEPT ![a].pc = "Done"]
    /\ UNCHANGED <<budget, calls, lock, parsers, scans, normalized, directory, conversion>>

AuditStep(a) ==
    \/ StaticPass(a)
    \/ EnterLlmPass(a)
    \/ SkipLlmPass(a)
    \/ LlmSerializeFails(a)
    \/ \E estimated_tokens \in EstimatedTokens : LlmLock(a, estimated_tokens)
    \/ LlmReserve(a)
    \/ LlmRespond(a)
    \/ Merge(a)
    \/ Return(a)

AuditNext == \E a \in DOMAIN audits : AuditStep(a)

AuditSpec == AuditInit /\ [][AuditNext]_vars

\* The audits of the Inventories whose Calls all trigger the three rules,
\* under a scheduler that runs an audit that can take a step: no await of
\* audit waits for ever, the budget lock is released by LlmReserve.
TriggeringInventories ==
    {inv \in Inventories : \A i \in 1..Len(inv) : CallFindings(inv[i]) # <<>>}

FairAuditInit ==
    /\ AuditInit
    /\ audits[1].inventory \in TriggeringInventories

FairAuditSpec == FairAuditInit /\ [][AuditNext]_vars /\ WF_vars(AuditStep(1))

\* Several audits of one Scanner at once: audit_inventory takes &self and
\* every SecurityAuditor it makes holds a clone of the Arc of the one Budget
\* that Scanner::new built from the configuration.
ConcurrentInventories ==
    {inv \in Inventories :
        /\ Len(inv) <= 1
        /\ \A i \in 1..Len(inv) :
               CallKey(inv[i]) = <<1, 1, 1>> /\ inv[i].model = NoModel}

ConcurrentAuditInit ==
    /\ \E limits \in AuditLimits : budget = from_config(limits)
    /\ calls = <<>>
    /\ lock = None
    /\ \E invs \in [1..NumAudits -> ConcurrentInventories] :
            audits = [a \in 1..NumAudits |-> NewAudit(invs[a])]
    /\ parsers = None
    /\ scans = <<>>
    /\ normalized = None
    /\ directory = None
    /\ conversion = None

ConcurrentAuditSpec == ConcurrentAuditInit /\ [][AuditNext]_vars

\* One audit under a configuration file that sets audit.enable_llm_audit
\* either way, of an Inventory of one Call at most.
ConfigInventories == {inv \in Inventories : Len(inv) <= 1}

ConfigAuditInit ==
    /\ \E limits \in AuditLimits : budget = from_config(limits)
    /\ calls = <<>>
    /\ lock = None
    /\ \E inv \in ConfigInventories, flag \in BOOLEAN :
            audits = <<[NewAudit(inv) EXCEPT !.enable_llm_audit = flag]>>
    /\ parsers = None
    /\ scans = <<>>
    /\ normalized = None
    /\ directory = None
    /\ conversion = None

ConfigAuditSpec == ConfigAuditInit /\ [][AuditNext]_vars

\* The Static Rule Engine on Calls of every kind the rules tell apart: the
\* contexts, wrappers and models in which each marker is there or not.
RuleContexts ==
    {"client = OpenAI(api_key=OPENAI_API_KEY)",
     "key = os.getenv(\"OPENAI_API_KEY\")",
     "api_key = os.environ[\"OPENAI_KEY\"]",
     "validate(x); limit(n); api_key = k",
     "sanitize(x); quota(n)",
     "response = ask(prompt)"}

RuleWrappers == {"client.chat.completions.create", "openai_config"}

RuleModels == {NoModel, "gpt-4o", "claude-3-opus", "gpt-3.5-turbo"}

RuleCall(pos, wrapper, model, context) ==
    [file |-> 1, line |-> pos[1], column |-> pos[2],
     wrapper |-> wrapper, model |-> model, context |-> context]

\* The Inventories of no Call, of one Call, and of two Calls on one line.
RuleInventories ==
    {<<>>}
      \cup {<<RuleCall(<<1, 1>>, w, m, c)>> :
                w \in RuleWrappers, m \in RuleModels, c \in RuleContexts}
      \cup {<<RuleCall(<<1, 1>>, x[1], x[2], x[3]), RuleCall(<<1, 2>>, y[1], y[2], y[3])>> :
                x \in RuleWrappers \X RuleModels \X RuleContexts,
                y \in RuleWrappers \X RuleModels \X RuleContexts}

StaticRuleInit ==
    /\ budget = from_config([max_tokens |-> None, max_requests |-> None, max_usd |-> None])
    /\ calls = <<>>
    /\ lock = None
    /\ \E inv \in RuleInventories : audits = <<NewAudit(inv)>>
    /\ parsers = None
    /\ scans = <<>>
    /\ normalized = None
    /\ directory = None
    /\ conversion = None

StaticRuleSpec == StaticRuleInit /\ [][AuditNext]_vars

\* ------------------------------------------- per-file scan and Normalizer
CallKeys(ai_calls) == [i \in 1..Len(ai_calls) |-> CallKey(ai_calls[i])]

\* scan_file line 191
sort_calls(ai_calls) ==
    The({sort_by_key(v, CallKeys(v)) : v \in {ai_calls}})

\* scan_file line 192
dedup_calls(ai_calls) ==
    The({dedup_by_key(v, CallKeys(v)) : v \in {ai_calls}})

\* scan_file lines 190-192 with the dedup before the sort.
normalize_dedup_first(ai_calls) == sort_calls(dedup_calls(ai_calls))

\* scan_file lines 190-192 with the sort alone.
normalize_no_dedup(ai_calls) == sort_calls(ai_calls)

\* scan_file lines 190-192 with a dedup that keeps the last record of
\* every run of equal keys.
normalize_keep_last(ai_calls) ==
    The({SubSeq_(v, {i \in 1..Len(v) :
                        i = Len(v) \/ CallKey(v[i]) # CallKey(v[i + 1])}) :
            v \in {sort_calls(ai_calls)}})

\* scan_file lines 190-192, "Deduplicate by location": sort by
\* (file, line, column), then drop the adjacent duplicates of that key.
normalize(ai_calls) == dedup_calls(sort_calls(ai_calls))

\* The extensions is_supported_file lets through, of which LANGUAGE_CONFIGS
\* has a grammar for the first kind only.
GrammarExtensions == {"py"}
OtherExtensions == {"go"}

\* Path::extension() of a path without extension.
NoExtension == ""

StructuralWrapper == "client.chat.completions.create"
LexicalWrapper == "openai_config"


HitSeqs == UNION {[1..n -> Positions] : n \in 0..MaxHits}

\* The AiCall that extract_ai_call or create_ai_call builds for a hit; the
\* context is the window of lines around the line of the hit.
AiCall(path, pos, wrapper) ==
    [file |-> path, line |-> pos[1], column |-> pos[2], wrapper |-> wrapper,
     model |-> NoModel, context |-> "client = OpenAI(api_key=OPENAI_API_KEY)"]

AiCalls(path, hits, wrapper) ==
    [i \in 1..Len(hits) |-> AiCall(path, hits[i], wrapper)]

\* A file of the tree: whether read_to_string succeeds, whether the grammar
\* parses it, and the hits of the queries and of the patterns, in the order
\* the matchers emit them.
Files ==
    [path : 1..NumFiles,
     ext : GrammarExtensions \cup OtherExtensions \cup {NoExtension},
     readable : BOOLEAN, parses : BOOLEAN,
     structural : HitSeqs, lexical : HitSeqs]

\* FileParser::parse_file, once the lock is held: Err for an extension
\* without parser and for a failed parse, else the Calls of the queries.
parse_file(file) ==
    IF file.ext \notin GrammarExtensions THEN [ok |-> FALSE, calls |-> <<>>]
    ELSE IF ~file.parses THEN [ok |-> FALSE, calls |-> <<>>]
    ELSE [ok |-> TRUE, calls |-> AiCalls(file.path, file.structural, StructuralWrapper)]

\* PatternMatcher::find_matches
find_matches(file) == AiCalls(file.path, file.lexical, LexicalWrapper)

NewScan(file) ==
    [pc |-> "read", file |-> file, ai_calls |-> <<>>, parsed |-> "none",
     result |-> [ok |-> FALSE, calls |-> <<>>], attempts |-> 0]

ScanFileInit ==
    /\ budget = from_config([max_tokens |-> None, max_requests |-> None, max_usd |-> None])
    /\ calls = <<>>
    /\ lock = None
    /\ audits = <<>>
    /\ parsers = None
    /\ \E file \in Files : scans = <<NewScan(file)>>
    /\ normalized = None
    /\ directory = None
    /\ conversion = None

\* scan_file line 178, read_to_string fails: the error is returned.
ReadFails(s) ==
    /\ scans[s].pc = "read"
    /\ ~scans[s].file.readable
    /\ scans' = [scans EXCEPT ![s].pc = "done", ![s].attempts = @ + 1]
    /\ UNCHANGED <<budget, calls, lock, audits, parsers, normalized, directory, conversion>>

\* scan_file lines 178-179, the content is read.
ReadFile(s) ==
    /\ scans[s].pc = "read"
    /\ scans[s].file.readable
    /\ scans' = [scans EXCEPT ![s].pc = "parse", ![s].attempts = @ + 1]
    /\ UNCHANGED <<budget, calls, lock, audits, parsers, normalized, directory, conversion>>

\* parse_file lines 132-135: a path without extension, the error is returned
\* before the lock is taken, and scan_file drops the Err.
ParseNoExtension(s) ==
    /\ scans[s].pc = "parse"
    /\ scans[s].file.ext = NoExtension
    /\ scans' = [scans EXCEPT ![s].pc = "match", ![s].parsed = "Err"]
    /\ UNCHANGED <<budget, calls, lock, audits, parsers, normalized, directory, conversion>>

\* parse_file line 137 without the wait for the Mutex: the parsers are
\* taken whoever holds them.
ParseLock_no_wait(s) ==
    /\ scans[s].pc = "parse"
    /\ scans[s].file.ext # NoExtension
    /\ parsers' = s
    /\ scans' = [scans EXCEPT ![s].pc = "parsing"]
    /\ UNCHANGED <<budget, calls, lock, audits, normalized, directory, conversion>>

\* parse_file line 137: the parsers are locked.
ParseLock(s) ==
    /\ scans[s].pc = "parse"
    /\ scans[s].file.ext # NoExtension
    /\ parsers = None
    /\ parsers' = s
    /\ scans' = [scans EXCEPT ![s].pc = "parsing"]
    /\ UNCHANGED <<budget, calls, lock, audits, normalized, directory, conversion>>

\* parse_file lines 138-166 with `?` on its result in scan_file: the Err of
\* the structural matcher is the Err of scan_file.
ParseFile_propagate(s) ==
    /\ scans[s].pc = "parsing"
    /\ parsers = s
    /\ parsers' = None
    /\ LET r == parse_file(scans[s].file)
       IN  scans' = [scans EXCEPT ![s].pc = IF r.ok THEN "match" ELSE "done",
                                  ![s].parsed = IF r.ok THEN "Ok" ELSE "Err",
                                  ![s].ai_calls = IF r.ok THEN @ \o r.calls ELSE @]
    /\ UNCHANGED <<budget, calls, lock, audits, normalized, directory, conversion>>

\* parse_file lines 138-166 and scan_file lines 182-184: the file is parsed
\* and queried, the guard is dropped on return, and scan_file keeps the
\* Calls of an Ok and drops an Err.
ParseFile(s) ==
    /\ scans[s].pc = "parsing"
    /\ parsers = s
    /\ parsers' = None
    /\ LET r == parse_file(scans[s].file)
       IN  scans' = [scans EXCEPT ![s].pc = "match",
                                  ![s].parsed = IF r.ok THEN "Ok" ELSE "Err",
                                  ![s].ai_calls = IF r.ok THEN @ \o r.calls ELSE @]
    /\ UNCHANGED <<budget, calls, lock, audits, normalized, directory, conversion>>

\* scan_file lines 186-194: the lexical hits are appended, the Calls are
\* sorted and deduplicated, and Ok(ai_calls) is returned.
MatchAndNormalize(s) ==
    /\ scans[s].pc = "match"
    /\ LET all == scans[s].ai_calls \o find_matches(scans[s].file)
       IN  scans' = [scans EXCEPT ![s].pc = "done",
                                  ![s].ai_calls = all,
                                  ![s].result = [ok |-> TRUE, calls |-> normalize(all)]]
    /\ UNCHANGED <<budget, calls, lock, audits, parsers, normalized, directory, conversion>>

ScanFileStep(s) ==
    \/ ReadFails(s)
    \/ ReadFile(s)
    \/ ParseNoExtension(s)
    \/ ParseLock(s)
    \/ ParseFile(s)
    \/ MatchAndNormalize(s)

ScanFileNext == \E s \in DOMAIN scans : ScanFileStep(s)

ScanFileSpec == ScanFileInit /\ [][ScanFileNext]_vars

\* The Call Normalizer on its own: run on any sequence of Calls, of one file
\* or of several, and run again on what it returned.
NormalizerCalls ==
    {AiCall(path, pos, wrapper) :
        path \in 1..NumFiles, pos \in Positions,
        wrapper \in {StructuralWrapper, LexicalWrapper}}

NormalizerInit ==
    /\ budget = from_config([max_tokens |-> None, max_requests |-> None, max_usd |-> None])
    /\ calls = <<>>
    /\ lock = None
    /\ audits = <<>>
    /\ parsers = None
    /\ scans = <<>>
    /\ \E input \in UNION {[1..n -> NormalizerCalls] : n \in 0..MaxSeq} :
          normalized = [input |-> input, ai_calls |-> input, runs |-> 0]
    /\ directory = None
    /\ conversion = None

Normalize ==
    /\ normalized.runs < MaxRuns
    /\ normalized' = [normalized EXCEPT !.ai_calls = normalize(@), !.runs = @ + 1]
    /\ UNCHANGED <<budget, calls, lock, audits, parsers, scans, directory, conversion>>

NormalizerNext == Normalize

NormalizerSpec == NormalizerInit /\ [][NormalizerNext]_vars

\* ------------------------------------------ lexical offset to line, column
\* The characters of a content: a line break, an ASCII letter, and letters
\* of two and of four bytes in UTF-8.
LineBreak == "\n"
Chars == {LineBreak, "a", "U+00E9", "U+1F600"}

\* char::len_utf8
len_utf8(ch) ==
    CASE ch = LineBreak -> 1
      [] ch = "a" -> 1
      [] ch = "U+00E9" -> 2
      [] ch = "U+1F600" -> 4

Contents == UNION {[1..n -> Chars] : n \in 0..MaxChars}

\* The byte offset behind the first k characters of content.
RECURSIVE ByteOffset(_, _)
ByteOffset(content, k) ==
    IF k = 0 THEN 0 ELSE ByteOffset(content, k - 1) + len_utf8(content[k])

\* match_.start() of a regex match: the byte offset of one of the
\* characters of the content.
MatchOffsets(content) == {ByteOffset(content, k - 1) : k \in 1..Len(content)}

\* byte_offset_to_line_col lines 168-170 on entry.
NewConversion(content, byte_offset) ==
    [pc |-> "loop", content |-> content, byte_offset |-> byte_offset,
     next |-> 1, line |-> 0, col |-> 0, current_offset |-> 0,
     position |-> <<0, 0>>]

\* byte_offset_to_line_col lines 177-184 with the column counted in bytes.
advance_bytes(c) ==
    LET ch == c.content[c.next]
    IN  [c EXCEPT !.line = IF ch = LineBreak THEN @ + 1 ELSE @,
                  !.col = IF ch = LineBreak THEN 0 ELSE @ + len_utf8(ch),
                  !.current_offset = @ + len_utf8(ch),
                  !.next = @ + 1]

\* byte_offset_to_line_col lines 177-184: one character of content.chars().
advance(c) ==
    LET ch == c.content[c.next]
    IN  [c EXCEPT !.line = IF ch = LineBreak THEN @ + 1 ELSE @,
                  !.col = IF ch = LineBreak THEN 0 ELSE @ + 1,
                  !.current_offset = @ + len_utf8(ch),
                  !.next = @ + 1]

ConversionInit ==
    /\ budget = from_config([max_tokens |-> None, max_requests |-> None, max_usd |-> None])
    /\ calls = <<>>
    /\ lock = None
    /\ audits = <<>>
    /\ parsers = None
    /\ scans = <<>>
    /\ normalized = None
    /\ directory = None
    /\ \E content \in Contents : \E byte_offset \in MatchOffsets(content) :
          conversion = NewConversion(content, byte_offset)

\* byte_offset_to_line_col lines 172-185: the body of the loop.
LoopStep ==
    /\ conversion.pc = "loop"
    /\ conversion.next <= Len(conversion.content)
    /\ conversion.current_offset < conversion.byte_offset
    /\ conversion' = advance(conversion)
    /\ UNCHANGED <<budget, calls, lock, audits, parsers, scans, normalized, directory>>

\* byte_offset_to_line_col lines 173-175 and 187, create_ai_call lines
\* 141 and 155-156: the loop ends and the Call gets line + 1, column + 1.
LoopExit ==
    /\ conversion.pc = "loop"
    /\ \/ conversion.next > Len(conversion.content)
       \/ conversion.current_offset >= conversion.byte_offset
    /\ conversion' = [conversion EXCEPT
                         !.pc = "done",
                         !.position = <<conversion.line + 1, conversion.col + 1>>]
    /\ UNCHANGED <<budget, calls, lock, audits, parsers, scans, normalized, directory>>

ConversionNext == LoopStep \/ LoopExit

ConversionSpec == ConversionInit /\ [][ConversionNext]_vars

\* ------------------------------------------------------- directory scan
\* The extensions of is_supported_file, and one that is not among them.
SupportedExtensions == GrammarExtensions \cup OtherExtensions
UnsupportedExtension == "md"

\* What the files of a tree are like: a visible source file with a
\* structural and a lexical hit on its first line, one the grammar does not
\* parse, one without grammar, one that cannot be read, one without hits,
\* one that is no source file, a hidden one and one the ignore rules exclude.
TreeShapes ==
    LET py == [hidden |-> FALSE, ignored |-> FALSE, ext |-> "py", readable |-> TRUE,
               parses |-> TRUE, lines |-> 2,
               structural |-> << <<1, 1>> >>, lexical |-> << <<1, 2>> >>]
    IN  {py,
         [py EXCEPT !.parses = FALSE, !.lexical = << <<1, 2>>, <<1, 1>>, <<1, 2>> >>],
         [py EXCEPT !.ext = "go", !.lines = 1],
         [py EXCEPT !.readable = FALSE],
         [py EXCEPT !.structural = <<>>, !.lexical = <<>>, !.lines = 1],
         [py EXCEPT !.ext = UnsupportedExtension],
         [py EXCEPT !.hidden = TRUE],
         [py EXCEPT !.ignored = TRUE]}

\* The entry of the tree at place path of the walk, of shape sh.
TreeFile(path, sh) ==
    [path |-> path, hidden |-> sh.hidden, ignored |-> sh.ignored, ext |-> sh.ext,
     readable |-> sh.readable, parses |-> sh.parses, lines |-> sh.lines,
     structural |-> sh.structural, lexical |-> sh.lexical]

\* The trees under a root: whether the walk of the root succeeds, and the
\* files in the order of the walk.
Trees ==
    UNION {{[enumerable |-> e, entries |-> [i \in 1..n |-> TreeFile(i, shapes[i])]] :
                e \in BOOLEAN, shapes \in [1..n -> TreeShapes]} :
           n \in 0..NumFiles}

\* Scanner::is_supported_file
is_supported_file(file) == file.ext \in SupportedExtensions

\* The entries WalkBuilder yields with .hidden(yes) and .git_ignore(TRUE):
\* hidden entries are left out when yes, ignored entries always.
walk(entries, yes) ==
    SubSeq_(entries, {i \in 1..Len(entries) :
                         /\ ~entries[i].ignored
                         /\ ~(yes /\ entries[i].hidden)})

\* Scanner::collect_files: `entry?` returns the error of the walk; the
\* builder is set up with .hidden(false).
collect_files(tree) ==
    IF ~tree.enumerable THEN [ok |-> FALSE, files |-> <<>>]
    ELSE LET entries == walk(tree.entries, FALSE)
         IN  [ok |-> TRUE,
              files |-> SubSeq_(entries, {i \in 1..Len(entries) :
                                             is_supported_file(entries[i])})]

\* DashMap::insert
insert(results, key, value) ==
    [k \in DOMAIN results \cup {key} |-> IF k = key THEN value ELSE results[k]]

\* The orders in which DashMap::iter can yield the entries of results.
IterOrders(results) ==
    {order \in [1..Cardinality(DOMAIN results) -> DOMAIN results] :
        \A i, j \in DOMAIN order : i # j => order[i] # order[j]}

\* scan_directory lines 125-128: the values of results, one after the other
\* in the order of the iteration.
RECURSIVE all_calls(_, _)
all_calls(results, order) ==
    IF order = <<>> THEN <<>>
    ELSE results[Head(order)] \o all_calls(results, Tail(order))

\* scan_directory lines 130-135 (the duration is left out)
Inventory(ai_calls, files_scanned, total_lines) ==
    [ai_calls |-> ai_calls, files_scanned |-> files_scanned,
     total_lines |-> total_lines]

NoInventory == Inventory(<<>>, 0, 0)

NewDirectory(tree) ==
    [pc |-> "collect", tree |-> tree, files |-> <<>>, results |-> <<>>,
     total_lines |-> 0, ret |-> [ok |-> FALSE, inventory |-> NoInventory]]

ScanDirectoryInit ==
    /\ budget = from_config([max_tokens |-> None, max_requests |-> None, max_usd |-> None])
    /\ calls = <<>>
    /\ lock = None
    /\ audits = <<>>
    /\ parsers = None
    /\ scans = <<>>
    /\ normalized = None
    /\ \E tree \in Trees : directory = NewDirectory(tree)
    /\ conversion = None

\* scan_directory lines 100-112 with the errors of the walk left out of the
\* list of files instead of returned.
CollectFiles_skip_errors ==
    /\ directory.pc = "collect"
    /\ LET files == collect_files([directory.tree EXCEPT !.enumerable = TRUE]).files
       IN  /\ directory' = [directory EXCEPT !.pc = "scan", !.files = files]
           /\ scans' = [i \in 1..Len(files) |-> NewScan(files[i])]
    /\ UNCHANGED <<budget, calls, lock, audits, parsers, normalized, conversion>>

\* scan_directory lines 100-112: the files are collected, `?` returns the
\* error of collect_files; results and total_lines are created and the
\* files are handed to the workers of par_iter.
CollectFiles ==
    /\ directory.pc = "collect"
    /\ LET r == collect_files(directory.tree)
       IN  IF r.ok
           THEN /\ directory' = [directory EXCEPT !.pc = "scan", !.files = r.files]
                /\ scans' = [i \in 1..Len(r.files) |-> NewScan(r.files[i])]
           ELSE /\ directory' = [directory EXCEPT !.pc = "done"]
                /\ scans' = scans
    /\ UNCHANGED <<budget, calls, lock, audits, parsers, normalized, conversion>>

\* scan_directory lines 115-120 with a file whose scan failed given to
\* scan_file again.
Insert_retry(s) ==
    /\ directory.pc = "scan"
    /\ scans[s].pc = "done"
    /\ scans' = IF scans[s].result.ok
                THEN [scans EXCEPT ![s].pc = "joined"]
                ELSE [scans EXCEPT ![s].pc = "read"]
    /\ directory' =
          IF scans[s].result.ok /\ scans[s].result.calls # <<>>
          THEN [directory EXCEPT
                   !.results = insert(@, scans[s].file.path, scans[s].result.calls)]
          ELSE directory
    /\ UNCHANGED <<budget, calls, lock, audits, parsers, normalized, conversion>>

\* scan_directory lines 115-120: the closure of for_each after scan_file has
\* returned; the Calls of an Ok that is not empty go into results.
Insert(s) ==
    /\ directory.pc = "scan"
    /\ scans[s].pc = "done"
    /\ scans' = [scans EXCEPT ![s].pc = "joined"]
    /\ directory' =
          IF scans[s].result.ok /\ scans[s].result.calls # <<>>
          THEN [directory EXCEPT
                   !.results = insert(@, scans[s].file.path, scans[s].result.calls)]
          ELSE directory
    /\ UNCHANGED <<budget, calls, lock, audits, parsers, normalized, conversion>>

\* scan_directory lines 123-135 with files_scanned counted from results.
BuildInventory_count_results ==
    /\ directory.pc = "scan"
    /\ \A s \in DOMAIN scans : scans[s].pc = "joined"
    /\ \E order \in IterOrders(directory.results) :
          directory' = [directory EXCEPT
              !.pc = "done",
              !.ret = [ok |-> TRUE,
                       inventory |-> Inventory(all_calls(directory.results, order),
                                               Cardinality(DOMAIN directory.results),
                                               directory.total_lines)]]
    /\ UNCHANGED <<budget, calls, lock, audits, parsers, scans, normalized, conversion>>

\* scan_directory lines 123-135 run without waiting for the workers, as
\* with tasks that are spawned and not joined.
BuildInventory_before_join ==
    /\ directory.pc = "scan"
    /\ \E order \in IterOrders(directory.results) :
          directory' = [directory EXCEPT
              !.pc = "done",
              !.ret = [ok |-> TRUE,
                       inventory |-> Inventory(all_calls(directory.results, order),
                                               Len(directory.files),
                                               directory.total_lines)]]
    /\ UNCHANGED <<budget, calls, lock, audits, parsers, scans, normalized, conversion>>

\* scan_directory lines 123-135: for_each has returned, every file is done;
\* results is flattened in the order of its iteration and Ok(Inventory) is
\* returned with files_scanned = files.len() and the value of total_lines.
BuildInventory ==
    /\ directory.pc = "scan"
    /\ \A s \in DOMAIN scans : scans[s].pc = "joined"
    /\ \E order \in IterOrders(directory.results) :
          directory' = [directory EXCEPT
              !.pc = "done",
              !.ret = [ok |-> TRUE,
                       inventory |-> Inventory(all_calls(directory.results, order),
                                               Len(directory.files),
                                               directory.total_lines)]]
    /\ UNCHANGED <<budget, calls, lock, audits, parsers, scans, normalized, conversion>>

\* A worker of the pool on the file it was given.
WorkerStep(s) ==
    \/ ReadFails(s)
    \/ ReadFile(s)
    \/ ParseLock(s)
    \/ ParseFile(s)
    \/ MatchAndNormalize(s)
    \/ Insert(s)

ScanDirectoryNext ==
    \/ CollectFiles
    \/ \E s \in DOMAIN scans : WorkerStep(s)
    \/ BuildInventory

ScanDirectorySpec == ScanDirectoryInit /\ [][ScanDirectoryNext]_vars

\* The scan under a scheduler that runs the caller and every worker of the
\* pool that can take a step: par_iter gives every file to a worker, and a
\* worker waiting for the parsers gets them once they are free.
FairScanDirectorySpec ==
    /\ ScanDirectoryInit
    /\ [][ScanDirectoryNext]_vars
    /\ WF_vars(CollectFiles)
    /\ WF_vars(BuildInventory)
    /\ \A s \in 1..NumFiles : WF_vars(s \in DOMAIN scans /\ WorkerStep(s))

\* ------------------------------------------------------ Budget properties
\* The step is a direct call of the Budget method op; the call just made is
\* the last element of calls'.
Called(op) ==
    /\ Len(calls') = Len(calls) + 1
    /\ calls'[Len(calls')].op = op

Counters(b) == <<b.used_tokens, b.used_requests, b.used_usd>>

\* C1: with a token ceiling, consume(t) with used_tokens + t > max_tokens
\* returns an error and leaves the three counters as they were; the rejected
\* call blocks nothing: a consume whose tokens fit under the ceiling commits
\* its tokens and returns Ok whenever the request ceiling does not object.
C1_TokenOverflowLeavesState ==
    [][(Called("consume") /\ budget.max_tokens # None) =>
         LET c == calls'[Len(calls')]
         IN  IF budget.used_tokens + c.arg > budget.max_tokens
             THEN /\ IsErr(c.ret)
                  /\ Counters(budget') = Counters(budget)
             ELSE /\ budget'.used_tokens = budget.used_tokens + c.arg
                  /\ (budget.max_requests = None
                        \/ budget.used_requests + 1 <= budget.max_requests)
                       => c.ret = "Ok"]_vars

\* The run of test_budget_tracking, scaled: consume ok, consume rejected
\* with the usage unchanged, consume ok up to the ceiling.
C1_Witness ==
    /\ Len(calls) = 3
    /\ \A i \in 1..3 : calls[i].op = "consume"
    /\ calls[1].ret = "Ok"
    /\ calls[2].ret = "ErrTokens"
    /\ calls[3].ret = "Ok"
    /\ budget.max_tokens = 2
    /\ budget.used_tokens = calls[1].arg + calls[3].arg
    /\ budget.used_tokens = budget.max_tokens
    /\ budget.used_requests = 2
    /\ is_exceeded(budget)

\* C2: with a request ceiling, a consume that passes the token check returns
\* success even when its increment raises used_requests above max_requests;
\* tokens and request are committed and is_exceeded() is true afterwards.
C2_RequestOverflowSucceeds ==
    [][(/\ Called("consume")
        /\ budget.max_requests # None
        /\ ~(budget.max_tokens # None
               /\ budget.used_tokens + calls'[Len(calls')].arg > budget.max_tokens)
        /\ budget.used_requests + 1 > budget.max_requests) =>
         /\ calls'[Len(calls')].ret = "Ok"
         /\ budget'.used_tokens = budget.used_tokens + calls'[Len(calls')].arg
         /\ budget'.used_requests = budget.used_requests + 1
         /\ is_exceeded(budget')]_vars

\* The ceilings that are configured and reached or exceeded by the usage.
ReachedCeiling(b) ==
    \/ b.max_tokens # None /\ b.used_tokens >= b.max_tokens
    \/ b.max_requests # None /\ b.used_requests >= b.max_requests
    \/ b.max_usd # None /\ b.used_usd >= b.max_usd

\* C3: is_exceeded() is true exactly when a configured ceiling is reached or
\* exceeded, false with no ceiling or every usage strictly below its
\* ceiling, and the call changes no counter.
C3_IsExceededExact ==
    /\ [](is_exceeded(budget) <=> ReachedCeiling(budget))
    /\ [][Called("is_exceeded") =>
            /\ calls'[Len(calls')].ret = ReachedCeiling(budget)
            /\ budget' = budget]_vars

\* is_exceeded() was called and returned true with a usage equal to its
\* ceiling, after a call that returned false.
C3_Witness ==
    /\ Len(calls) = 3
    /\ calls[1].op = "is_exceeded" /\ calls[1].ret = FALSE
    /\ calls[2].op = "consume" /\ calls[2].ret = "Ok"
    /\ calls[3].op = "is_exceeded" /\ calls[3].ret = TRUE
    /\ budget.used_tokens = budget.max_tokens
    /\ budget.max_requests = None
    /\ budget.max_usd = None

\* C4: consume_cost(c) with a cost ceiling and used_usd + c > max_usd returns
\* an error and changes no counter; otherwise it returns Ok, used_usd grows
\* by exactly c and the token and request counters stay.
C4_CostCheckBeforeCommit ==
    [][Called("consume_cost") =>
         LET c == calls'[Len(calls')]
         IN  IF budget.max_usd # None /\ budget.used_usd + c.arg > budget.max_usd
             THEN /\ IsErr(c.ret)
                  /\ budget' = budget
             ELSE /\ c.ret = "Ok"
                  /\ budget' = [budget EXCEPT !.used_usd = budget.used_usd + c.arg]]_vars

\* A cost was committed, the next one was rejected, and the usage is still
\* the first cost.
C4_Witness ==
    /\ Len(calls) >= 2
    /\ calls[1].op = "consume_cost" /\ calls[1].ret = "Ok" /\ calls[1].arg > 0
    /\ calls[2].op = "consume_cost" /\ calls[2].ret = "ErrCost"
    /\ budget.used_usd = calls[1].arg
    /\ budget.used_usd < budget.max_usd

\* ------------------------------------------------------- Audit properties
Elements(v) == {v[i] : i \in 1..Len(v)}

\* Ascending by (file, line, id), and no key twice.
SortedByKey(findings) ==
    \A i, j \in 1..Len(findings) :
        i < j => ~TupleLess(FindingKey(findings[j]), FindingKey(findings[i]))

UniqueKeys(findings) ==
    \A i, j \in 1..Len(findings) :
        i # j => FindingKey(findings[i]) # FindingKey(findings[j])

LlmFailures == {"ErrSerialize", "ErrTokens", "ErrRequests", "ErrCost"}

\* C5: every audit reaches Done and returns an AuditResult, never the error
\* of the LLM pass; when the LLM pass failed, the result holds exactly the
\* static findings, sorted and without duplicates.
C5_AuditAlwaysCompletes ==
    /\ (audits[1].pc = "Idle") ~> (audits[1].pc = "Done")
    /\ [](audits[1].pc = "Done" =>
            /\ audits[1].result.ok
            /\ audits[1].llm \in LlmFailures =>
                 /\ Elements(audits[1].result.findings)
                      = Elements(static_analysis(audits[1].inventory))
                 /\ SortedByKey(audits[1].result.findings)
                 /\ UniqueKeys(audits[1].result.findings))

\* An audit is Done after a reservation the Budget refused, with static
\* findings in its result.
C5_Witness ==
    /\ audits[1].pc = "Done"
    /\ audits[1].llm \in {"ErrTokens", "ErrRequests", "ErrCost"}
    /\ audits[1].result.ok
    /\ Len(audits[1].result.findings) >= 3

InLlmPass(a) == audits[a].pc \in {"LlmPass", "LlmLocked", "LlmAnalysis", "LlmDone"}

\* C6: the LLM pass is entered only with at least one Call in the Inventory;
\* the audit of an empty Inventory skips it, leaves the Budget as it was and
\* yields a result without findings.
C6_EmptyInventorySkipsLlm ==
    \A a \in DOMAIN audits :
        /\ InLlmPass(a) => audits[a].inventory # <<>>
        /\ (audits[a].inventory = <<>> /\ audits[a].pc # "Idle") =>
              /\ audits[a].llm = "none"
              /\ budget = audits[a].start
              /\ audits[a].pc \in {"StaticPass", "Skip", "Merge", "Done"}
              /\ audits[a].pc \in {"Merge", "Done"} =>
                    /\ audits[a].result.ok
                    /\ audits[a].result.findings = <<>>
                    /\ audits[a].result.summary.total_findings = 0

C6_Witness ==
    /\ audits[1].pc = "Done"
    /\ audits[1].inventory = <<>>
    /\ audits[1].result.ok
    /\ audits[1].result.findings = <<>>

HasResult(a) == audits[a].pc \in {"Merge", "Done"}

\* C7: the findings of every AuditResult are ascending by (file, line, id)
\* and no two of them have the same (file, line, id).
C7_FindingsSortedUnique ==
    \A a \in DOMAIN audits :
        HasResult(a) =>
            /\ SortedByKey(audits[a].result.findings)
            /\ UniqueKeys(audits[a].result.findings)

\* A result merged from static and LLM findings where the dedup removed a
\* finding and the sort moved the LLM finding off the end.
C7_Witness ==
    /\ audits[1].pc = "Done"
    /\ audits[1].llm = "Ok"
    /\ Len(audits[1].result.findings) < Len(audits[1].findings)
    /\ Len(audits[1].result.findings) >= 4
    /\ audits[1].result.findings[Len(audits[1].result.findings)].id # LlmId

Severities == {"Critical", "High", "Medium", "Low", "Info"}

SummaryCount(summary, severity) ==
    CASE severity = "Critical" -> summary.critical
      [] severity = "High" -> summary.high
      [] severity = "Medium" -> summary.medium
      [] severity = "Low" -> summary.low
      [] severity = "Info" -> summary.info

\* C8: the summary of every AuditResult matches its findings:
\* total_findings is their number, each severity count is the number of
\* findings of that severity, and the five counts add up to total_findings.
C8_SummaryMatchesFindings ==
    \A a \in DOMAIN audits :
        HasResult(a) =>
            LET r == audits[a].result
            IN  /\ r.summary.total_findings = Len(r.findings)
                /\ \A sev \in Severities :
                      SummaryCount(r.summary, sev)
                        = Cardinality({i \in 1..Len(r.findings) : r.findings[i].severity = sev})
                /\ r.summary.critical + r.summary.high + r.summary.medium
                     + r.summary.low + r.summary.info = r.summary.total_findings

\* A result whose dedup removed a finding, with High and Medium findings.
C8_Witness ==
    /\ audits[1].pc = "Done"
    /\ Len(audits[1].result.findings) < Len(audits[1].findings)
    /\ audits[1].result.summary.high >= 2
    /\ audits[1].result.summary.medium >= 2
    /\ audits[1].result.summary.total_findings
         = audits[1].result.summary.high + audits[1].result.summary.medium

\* --------------------------------------------------- Normalizer properties
\* C9: the sequence scan_file returns has unique keys: two Calls of it with
\* the same (file, line, column) are the same record.
C9_ScanFileUniqueKeys ==
    \A s \in DOMAIN scans :
        (scans[s].pc = "done" /\ scans[s].result.ok) =>
            \A i, j \in 1..Len(scans[s].result.calls) :
                CallKey(scans[s].result.calls[i]) = CallKey(scans[s].result.calls[j])
                    => i = j

\* A structural and a lexical hit at one position, apart in the
\* concatenation, of which one Call is returned.
C9_Witness ==
    /\ scans[1].pc = "done"
    /\ scans[1].result.ok
    /\ scans[1].parsed = "Ok"
    /\ Len(scans[1].ai_calls) = 3
    /\ CallKey(scans[1].ai_calls[1]) = CallKey(scans[1].ai_calls[3])
    /\ CallKey(scans[1].ai_calls[1]) # CallKey(scans[1].ai_calls[2])
    /\ Len(scans[1].result.calls) = 2

\* C10: normalization is idempotent: run on a sequence that is already
\* normalized, of one file or of a whole Inventory, it returns that sequence.
C10_NormalizeIdempotent ==
    [][normalized.runs >= 1 => normalized'.ai_calls = normalized.ai_calls]_vars

\* The second run, on a sequence of Calls of two files from which the first
\* run removed a duplicate and which it reordered.
C10_Witness ==
    /\ normalized.runs = 2
    /\ Len(normalized.input) = 3
    /\ Len(normalized.ai_calls) = 2
    /\ normalized.ai_calls[1].file # normalized.ai_calls[2].file
    /\ normalized.input[1] # normalized.ai_calls[1]

\* ------------------------------------------------- matcher properties
\* The source lines of a sequence of hits.
HitLines(hits) == {hits[i][1] : i \in 1..Len(hits)}

CallsAtLine(ai_calls, line) == {i \in 1..Len(ai_calls) : ai_calls[i].line = line}

\* C11: when the structural matcher and the lexical matcher both produce a
\* hit on one source line of a file, the Calls scan_file returns for the file
\* have exactly one Call at that line.
C11_OneCallPerLine ==
    \A s \in DOMAIN scans :
        (scans[s].pc = "done" /\ scans[s].result.ok /\ scans[s].parsed = "Ok") =>
            \A line \in HitLines(scans[s].file.structural)
                          \cap HitLines(scans[s].file.lexical) :
                Cardinality(CallsAtLine(scans[s].result.calls, line)) = 1

\* C14: for a file whose extension has no grammar, or that has no
\* extension, parse_file returns Ok with no Calls.
C14_NoGrammarYieldsEmpty ==
    \A s \in DOMAIN scans :
        (scans[s].pc \in {"match", "done"}
            /\ scans[s].file.readable
            /\ scans[s].file.ext \notin GrammarExtensions) =>
                /\ scans[s].parsed = "Ok"
                /\ scans[s].pc = "match" => scans[s].ai_calls = <<>>

\* C22: of the hits of a file that share a key, scan_file keeps the one that
\* is first in the concatenation of the structural and the lexical hits, and
\* every key of the concatenation is the key of a Call it returns.
C22_FirstSeenKept ==
    \A s \in DOMAIN scans :
        (scans[s].pc = "done" /\ scans[s].result.ok) =>
            LET all == scans[s].ai_calls
                out == scans[s].result.calls
            IN  /\ {CallKey(out[k]) : k \in 1..Len(out)}
                      = {CallKey(all[i]) : i \in 1..Len(all)}
                /\ \A k \in 1..Len(out) :
                      \E i \in 1..Len(all) :
                          /\ out[k] = all[i]
                          /\ \A j \in 1..(i - 1) : CallKey(all[j]) # CallKey(all[i])

C22_Witness ==
    /\ scans[1].pc = "done"
    /\ scans[1].parsed = "Ok"
    /\ Len(scans[1].file.structural) = 1
    /\ Len(scans[1].file.lexical) = 2
    /\ scans[1].file.lexical[2] = scans[1].file.structural[1]
    /\ scans[1].file.lexical[1] # scans[1].file.structural[1]
    /\ Len(scans[1].result.calls) = 2
    /\ \E k \in 1..2 :
          /\ CallKey(scans[1].result.calls[k]) = CallKey(scans[1].ai_calls[1])
          /\ scans[1].result.calls[k].wrapper = StructuralWrapper

\* ------------------------------------------- Scan Orchestrator properties
\* scan_directory has returned.
Scanned == directory.pc = "done"

\* The entries of the tree the walk yields that is_supported_file accepts.
EligibleEntries(tree) ==
    {i \in DOMAIN tree.entries :
        ~tree.entries[i].ignored /\ tree.entries[i].ext \in SupportedExtensions}

UnreadableEntries(tree) ==
    {i \in EligibleEntries(tree) : ~tree.entries[i].readable}

\* The Calls of the Inventory that are in the file path, in their order.
CallsOfFile(ai_calls, path) ==
    SubSeq_(ai_calls, {i \in 1..Len(ai_calls) : ai_calls[i].file = path})

\* C12: a scan of a tree with N eligible files of which M cannot be read
\* returns Ok(Inventory) with files_scanned = N, every Call of the Inventory
\* is in an eligible file that can be read, and an unreadable file has no
\* Call in it.
C12_UnreadableFilesSkipped ==
    (Scanned /\ directory.tree.enumerable) =>
        LET tree == directory.tree
            inventory == directory.ret.inventory
        IN  /\ directory.ret.ok
            /\ inventory.files_scanned = Cardinality(EligibleEntries(tree))
            /\ \A i \in 1..Len(inventory.ai_calls) :
                  inventory.ai_calls[i].file
                      \in EligibleEntries(tree) \ UnreadableEntries(tree)
            /\ \A path \in UnreadableEntries(tree) :
                  CallsOfFile(inventory.ai_calls, path) = <<>>

C12_Witness ==
    /\ Scanned
    /\ directory.ret.ok
    /\ Cardinality(EligibleEntries(directory.tree)) = 2
    /\ Cardinality(UnreadableEntries(directory.tree)) = 1
    /\ directory.ret.inventory.files_scanned = 2
    /\ directory.ret.inventory.ai_calls # <<>>

\* The files the structural matcher fails on: read, but not parsed by the
\* grammar or of an extension without grammar.
StructuralFailures ==
    {i \in 1..Len(directory.files) :
        /\ directory.files[i].readable
        /\ \/ directory.files[i].ext \notin GrammarExtensions
           \/ ~directory.files[i].parses}

\* The keys of the lexical hits of a file.
LexicalKeys(file) ==
    {<<file.path, file.lexical[i][1], file.lexical[i][2]>> :
        i \in 1..Len(file.lexical)}

\* C13: the Calls the Inventory has for a readable file the structural
\* matcher failed on are exactly the lexical hits of the file, one per key
\* and in ascending order of the keys.
C13_LexicalHitsSurviveParseFailure ==
    (Scanned /\ directory.ret.ok) =>
        \A i \in StructuralFailures :
            LET file == directory.files[i]
                found == CallsOfFile(directory.ret.inventory.ai_calls, file.path)
            IN  /\ scans[i].result.ok
                /\ scans[i].result.calls = found
                /\ {CallKey(found[k]) : k \in 1..Len(found)} = LexicalKeys(file)
                /\ Len(found) = Cardinality(LexicalKeys(file))
                /\ \A k \in 1..Len(found) : found[k].wrapper = LexicalWrapper
                /\ \A k \in 1..(Len(found) - 1) :
                      TupleLess(CallKey(found[k]), CallKey(found[k + 1]))

C13_Witness ==
    /\ Scanned
    /\ directory.ret.ok
    /\ \E i \in StructuralFailures :
          /\ ~directory.files[i].parses
          /\ directory.files[i].ext \in GrammarExtensions
          /\ Len(directory.files[i].lexical) = 3
          /\ Len(CallsOfFile(directory.ret.inventory.ai_calls,
                              directory.files[i].path)) = 2
    /\ \E i \in StructuralFailures :
          /\ directory.files[i].ext \notin GrammarExtensions
          /\ CallsOfFile(directory.ret.inventory.ai_calls,
                          directory.files[i].path) # <<>>

\* C15: no hidden file is collected: none is among the files counted in
\* files_scanned and none has a Call in the Inventory.
C15_HiddenFilesExcluded ==
    (Scanned /\ directory.ret.ok) =>
        LET tree == directory.tree
            visible == {i \in EligibleEntries(tree) : ~tree.entries[i].hidden}
        IN  /\ directory.ret.inventory.files_scanned = Cardinality(visible)
            /\ \A i \in DOMAIN tree.entries :
                  tree.entries[i].hidden =>
                      CallsOfFile(directory.ret.inventory.ai_calls, i) = <<>>

\* C16: scan_directory returns an error and no Inventory when the walk of
\* the tree fails, and Ok(Inventory) when the walk succeeds, whatever the
\* files are like.
C16_EnumerationFailureIsFatal ==
    Scanned =>
        /\ directory.ret.ok = directory.tree.enumerable
        /\ ~directory.tree.enumerable =>
              (directory.ret.inventory = NoInventory /\ scans = <<>>)

C16_Witness ==
    /\ Scanned
    /\ ~directory.tree.enumerable
    /\ ~directory.ret.ok
    /\ Cardinality(EligibleEntries(directory.tree)
                      \ UnreadableEntries(directory.tree)) >= 1

RECURSIVE TotalLines(_)
TotalLines(files) ==
    IF files = <<>> THEN 0
    ELSE (IF Head(files).readable THEN Head(files).lines ELSE 0)
            + TotalLines(Tail(files))

\* C17: total_lines of the Inventory is the number of lines of the files
\* the scan has read.
C17_TotalLinesCounted ==
    (Scanned /\ directory.ret.ok) =>
        directory.ret.inventory.total_lines = TotalLines(directory.files)

\* --------------------------------------------- Static Rule Engine properties
\* The markers of the rules in a Call.
KeyMarker(call) ==
    "api_key" \in Occurs(call.context) \/ "API_KEY" \in Occurs(call.context)

EnvMarker(call) ==
    "env" \in Occurs(call.context) \/ "getenv" \in Occurs(call.context)

\* The trigger condition of rule k on a Call.
Triggers(k, call) ==
    CASE k = 1 -> KeyMarker(call) /\ ~EnvMarker(call)
      [] k = 2 -> /\ Occurs(call.wrapper) \cap {"chat", "completion"} # {}
                  /\ Occurs(call.context) \cap {"validate", "sanitize"} = {}
      [] k = 3 -> /\ call.model # NoModel
                  /\ Occurs(call.model) \cap {"gpt-4", "claude"} # {}
                  /\ Occurs(call.context) \cap {"limit", "quota"} = {}

\* C18: the static pass emits one High ApiKeyExposure finding for every
\* Call whose context has an API-key marker and no environment marker, at
\* the file and line of that Call, and none for any other Call.
C18_ApiKeyExposureRule ==
    \A a \in DOMAIN audits :
        audits[a].pc # "Idle" =>
            LET inv == audits[a].inventory
                f == audits[a].findings
                exposed == {i \in 1..Len(inv) : KeyMarker(inv[i]) /\ ~EnvMarker(inv[i])}
                exposures == {k \in 1..Len(f) : f[k].issue_type = "ApiKeyExposure"}
            IN  /\ Cardinality(exposures) = Cardinality(exposed)
                /\ \A k \in exposures :
                      /\ f[k].severity = "High"
                      /\ \E i \in exposed :
                            f[k].file = inv[i].file /\ f[k].line = inv[i].line

C18_Witness ==
    /\ audits[1].pc = "StaticPass"
    /\ Len(audits[1].inventory) = 2
    /\ KeyMarker(audits[1].inventory[1]) /\ ~EnvMarker(audits[1].inventory[1])
    /\ KeyMarker(audits[1].inventory[2]) /\ EnvMarker(audits[1].inventory[2])
    /\ Cardinality({k \in 1..Len(audits[1].findings) :
                        audits[1].findings[k].issue_type = "ApiKeyExposure"}) = 1

RuleIssue(k) ==
    CASE k = 1 -> [issue_type |-> "ApiKeyExposure", severity |-> "High"]
      [] k = 2 -> [issue_type |-> "MissingInputValidation", severity |-> "Medium"]
      [] k = 3 -> [issue_type |-> "UnrestrictedModelAccess", severity |-> "Medium"]

\* C19: rule k has a finding for a Call, before and after the merge, exactly
\* when the Call meets the trigger condition of rule k, whatever the other
\* rules do; the finding has the id, the issue type and the severity of
\* rule k, so that a Call meeting the three conditions has three findings.
C19_RulesIndependent ==
    \A a \in DOMAIN audits :
        audits[a].pc # "Idle" =>
            LET inv == audits[a].inventory
                f == IF audits[a].pc \in {"Merge", "Done"}
                     THEN audits[a].result.findings ELSE audits[a].findings
            IN  \A i \in 1..Len(inv), k \in 1..3 :
                    LET hits == {n \in 1..Len(f) : f[n].id = <<k, inv[i].file, inv[i].line>>}
                    IN  /\ (hits # {}) =
                              (\E j \in 1..Len(inv) :
                                  /\ inv[j].file = inv[i].file
                                  /\ inv[j].line = inv[i].line
                                  /\ Triggers(k, inv[j]))
                        /\ \A n \in hits :
                              /\ f[n].issue_type = RuleIssue(k).issue_type
                              /\ f[n].severity = RuleIssue(k).severity
                              /\ f[n].file = inv[i].file
                              /\ f[n].line = inv[i].line

C19_Witness ==
    /\ audits[1].pc = "Done"
    /\ Len(audits[1].inventory) = 1
    /\ \A k \in 1..3 : Triggers(k, audits[1].inventory[1])
    /\ Cardinality({audits[1].result.findings[n].id :
                        n \in 1..Len(audits[1].result.findings)}
                      \ {LlmId}) = 3

\* C20: the budget lock is not held by an audit that is in the analysis
\* step or past it, whether its reservation succeeded or failed; an audit
\* holds the lock only between acquiring it and making its reservation.
C20_LockReleasedBeforeAnalysis ==
    \A a \in DOMAIN audits :
        /\ audits[a].pc \in {"LlmAnalysis", "LlmDone", "Skip", "Merge", "Done"} => lock # a
        /\ lock = a => audits[a].pc = "LlmLocked"
        /\ audits[a].pc = "LlmAnalysis" =>
              budget.used_requests = audits[a].start.used_requests + 1

C20_Witness ==
    /\ audits[1].pc = "LlmAnalysis"
    /\ lock = None
    /\ budget.used_tokens > audits[1].start.used_tokens

\* ------------------------------------------------ Lexical Matcher properties
\* The characters of the content that start before the byte offset.
CharsBefore(c) ==
    {k \in 1..Len(c.content) : ByteOffset(c.content, k - 1) < c.byte_offset}

LineBreaksBefore(c) == {k \in CharsBefore(c) : c.content[k] = LineBreak}

\* C21: the line of the Call is one more than the number of line breaks
\* before the match, and its column one more than the number of characters
\* between the last of these line breaks and the match, whatever the number
\* of bytes of the characters.
C21_OffsetConversionExact ==
    conversion.pc = "done" =>
        /\ conversion.position[1] = 1 + Cardinality(LineBreaksBefore(conversion))
        /\ conversion.position[2] =
              1 + Cardinality({k \in CharsBefore(conversion) :
                                  \A b \in LineBreaksBefore(conversion) : k > b})

C21_Witness ==
    /\ conversion.pc = "done"
    /\ conversion.content = <<LineBreak, "U+00E9", "a">>
    /\ conversion.byte_offset = 3
    /\ conversion.position = <<2, 2>>

\* ------------------------------------------------- worker pool properties
\* C23: a worker is between the lock of the parsers and the return of
\* parse_file exactly when it holds the lock, so that at most one worker is
\* there at a time and no worker holds the lock after parse_file returned,
\* whether with the Calls or with an error.
C23_ParserLockExclusive ==
    /\ Cardinality({s \in DOMAIN scans : scans[s].pc = "parsing"}) <= 1
    /\ \A s \in DOMAIN scans : (scans[s].pc = "parsing") = (parsers = s)
    /\ (\A s \in DOMAIN scans : scans[s].pc # "parsing") => parsers = None

C23_Witness ==
    /\ Len(scans) = 2
    /\ scans[1].pc = "match"
    /\ scans[1].parsed = "Err"
    /\ scans[1].file.ext \notin GrammarExtensions
    /\ scans[2].pc = "parsing"
    /\ ~scans[2].file.parses
    /\ parsers = 2

\* C24: a scan returns, and when it returns an Inventory every eligible
\* file of the tree was given to scan_file once, has finished, failed or
\* not, and was not given to it again.
C24_ScanTerminatesEachFileOnce ==
    /\ (directory.pc = "collect") ~> (directory.pc = "done")
    /\ [](\A s \in DOMAIN scans : scans[s].attempts <= 1)
    /\ []((Scanned /\ directory.ret.ok) =>
            /\ Len(scans) = Cardinality(EligibleEntries(directory.tree))
            /\ {scans[s].file.path : s \in DOMAIN scans}
                  = EligibleEntries(directory.tree)
            /\ \A s \in DOMAIN scans :
                  scans[s].pc = "joined" /\ scans[s].attempts = 1)

C24_Witness ==
    /\ Scanned
    /\ directory.ret.ok
    /\ Len(scans) = 2
    /\ ~scans[1].result.ok
    /\ scans[1].attempts = 1
    /\ scans[2].result.ok
    /\ scans[2].attempts = 1

\* C25: whatever the order of the steps of the workers and of the iteration
\* of results, the Inventory has no key twice, has for every file the Calls
\* scan_file returned for it and no other Call, and has the Calls of a file
\* next to each other in ascending order of their keys.
C25_InventoryPerFileIntact ==
    (Scanned /\ directory.ret.ok) =>
        LET inv == directory.ret.inventory.ai_calls
        IN  /\ \A i, j \in 1..Len(inv) : i # j => CallKey(inv[i]) # CallKey(inv[j])
            /\ \A s \in DOMAIN scans :
                  CallsOfFile(inv, scans[s].file.path)
                      = IF scans[s].result.ok THEN scans[s].result.calls ELSE <<>>
            /\ \A i \in 1..Len(inv) :
                  \E s \in DOMAIN scans : inv[i].file = scans[s].file.path
            /\ ScanProducible(inv)

C25_Witness ==
    /\ Scanned
    /\ directory.ret.ok
    /\ Len(directory.ret.inventory.ai_calls) = 4
    /\ directory.ret.inventory.ai_calls[1].file = 2
    /\ directory.ret.inventory.ai_calls[2].file = 2
    /\ directory.ret.inventory.ai_calls[3].file = 1
    /\ directory.ret.inventory.ai_calls[4].file = 1

\* ------------------------------------------------ Budget Tracker invariants
\* C26: with a token ceiling, used_tokens is never above it, whatever calls
\* were made and whatever they returned, and remaining_tokens() is the
\* difference; without token ceiling remaining_tokens() is None.
C26_TokensWithinCeiling ==
    /\ budget.max_tokens # None =>
          /\ budget.used_tokens <= budget.max_tokens
          /\ remaining_tokens(budget) = budget.max_tokens - budget.used_tokens
    /\ budget.max_tokens = None => remaining_tokens(budget) = None

C26_Witness ==
    /\ Len(calls) = 3
    /\ calls[1].op = "consume" /\ calls[1].ret = "ErrRequests"
    /\ calls[2].op = "consume" /\ calls[2].ret = "ErrTokens"
    /\ calls[3].op = "consume_cost" /\ calls[3].ret = "ErrCost"
    /\ budget.max_tokens = 2
    /\ budget.used_tokens = 1
    /\ remaining_tokens(budget) = 1

\* C27: with a request ceiling, used_requests is never more than one above
\* it, and a consume made once used_requests is above the ceiling changes
\* neither used_requests nor used_tokens.
C27_SingleRequestAllowance ==
    /\ [](budget.max_requests # None =>
             budget.used_requests <= budget.max_requests + 1)
    /\ [][(/\ Called("consume")
           /\ budget.max_requests # None
           /\ budget.used_requests > budget.max_requests) =>
            /\ budget'.used_requests = budget.used_requests
            /\ budget'.used_tokens = budget.used_tokens]_vars

\* ---------------------------------------------- LLM pass budget properties
\* C28: an audit whose reservation failed, on the token, the request or the
\* cost ceiling, leaves used_tokens, used_requests and used_usd as they were
\* when the audit started.
C28_ReservationAllOrNothing ==
    \A a \in DOMAIN audits :
        audits[a].llm \in {"ErrTokens", "ErrRequests", "ErrCost"} =>
            Counters(budget) = Counters(audits[a].start)

\* The audits whose consume passed the token check and added its tokens and
\* its request, and those whose consume_cost added its cost.
CommittedTokens(a) ==
    \/ audits[a].pc = "LlmAnalysis"
    \/ audits[a].llm \in {"Ok", "ErrRequests", "ErrCost"}

CommittedCost(a) == audits[a].pc = "LlmAnalysis" \/ audits[a].llm = "Ok"

RECURSIVE SumTokens(_)
SumTokens(n) ==
    IF n = 0 THEN 0
    ELSE SumTokens(n - 1)
           + (IF CommittedTokens(n) THEN TokenUsage(audits[n].est).total_tokens ELSE 0)

RECURSIVE SumCost(_)
SumCost(n) ==
    IF n = 0 THEN 0
    ELSE SumCost(n - 1)
           + (IF CommittedCost(n) THEN estimate_cost(TokenUsage(audits[n].est)) ELSE 0)

\* C29: with several audits running against one Budget, at most one audit is
\* inside the reservation at a time, used_tokens never passes max_tokens and
\* used_usd never passes max_usd, and no update is lost: used_tokens is the
\* sum of the tokens of the consume calls that committed, used_requests is
\* their number and used_usd is the sum of the costs that committed.
C29_ConcurrentReservationsAtomic ==
    /\ \A a, b \in DOMAIN audits :
           (audits[a].pc = "LlmLocked" /\ audits[b].pc = "LlmLocked") => a = b
    /\ \A a \in DOMAIN audits : audits[a].pc = "LlmLocked" <=> lock = a
    /\ budget.max_tokens # None => budget.used_tokens <= budget.max_tokens
    /\ budget.max_usd # None => budget.used_usd <= budget.max_usd
    /\ budget.used_tokens = SumTokens(Len(audits))
    /\ budget.used_requests = Cardinality({a \in DOMAIN audits : CommittedTokens(a)})
    /\ budget.used_usd = SumCost(Len(audits))

\* Two audits have both committed against a Budget with a token ceiling, and
\* a third reservation of the same size would not fit.
C29_Witness ==
    /\ Len(audits) >= 2
    /\ budget.max_tokens # None
    /\ audits[1].llm = "Ok"
    /\ audits[2].pc = "LlmAnalysis"
    /\ budget.used_tokens = TokenUsage(audits[1].est).total_tokens
                              + TokenUsage(audits[2].est).total_tokens

\* C30: an audit whose configuration has the LLM-audit flag off never enters
\* the LLM pass, leaves the three counters of the Budget as they were when it
\* started, and returns the merged findings of the static pass alone.
C30_DisabledFlagSkipsLlmPass ==
    \A a \in DOMAIN audits :
        ~audits[a].enable_llm_audit =>
            /\ audits[a].pc \notin {"LlmPass", "LlmLocked", "LlmAnalysis", "LlmDone"}
            /\ audits[a].pc # "Idle" => Counters(budget) = Counters(audits[a].start)
            /\ audits[a].pc = "Done" =>
                   audits[a].result
                     = audit_result(static_analysis(audits[a].inventory))

====
